---- MODULE Spec2Model ----
(***************************************************************************)
(* Model of financial_advisor/response_extractor.py (the three trace       *)
(* functions) and of the endpoints of financial_advisor/server_clean.py    *)
(* that call them on the event list answered by the upstream /run call.    *)
(*                                                                         *)
(* Python values are records [t, s, d]: t is the type tag, s the text of a *)
(* str as a sequence of lexical tokens, d the identity of a dict.          *)
(* Text tokens: "F" is the three-backtick fence, "J" the word json,        *)
(* "NL" a newline, "SP" a blank, "A" and "B" two JSON object documents,    *)
(* "E" the empty JSON object, "N" the JSON literal null, "X" a word that   *)
(* is not JSON.                                                            *)
(***************************************************************************)
EXTENDS Integers, Sequences, FiniteSets, TLC

\* response: what the upstream /run call answers (or that it timed out);
\* response_data: the event list of its body; endpoint: the handler that ran
\* ("idle" before); result: what that handler answered.
VARIABLES response_data, response, endpoint, result

vars == <<response_data, response, endpoint, result>>

\* Longest event list the upstream run answers with.
MaxLen == 3

-----------------------------------------------------------------------------
(* Python values *)

PyNone == [t |-> "none", s |-> <<>>, d |-> ""]
PyStr(toks) == [t |-> "str", s |-> toks, d |-> ""]
PyDict(id) == [t |-> "dict", s |-> <<>>, d |-> id]

FC == "financial_coordinator"
DA == "data_analyst"
\* entry.get("author") on an event without the key
NoAuthor == "<absent>"
UNKNOWN == "unknown"

FC_KEY == "financial_coordinator_output"
DA_KEY == "data_analyst_output"

\* the keys of the outputs dict, in its insertion order
RegistryOrder ==
    <<"data_analyst_output", "trading_analyst_output", "risk_analyst_output",
      "execution_analyst_output", "financial_coordinator_output">>

Registry == {RegistryOrder[i] : i \in 1..Len(RegistryOrder)}

-----------------------------------------------------------------------------
(* re.search with re.DOTALL of: fence json, greedy whitespace, newline, the *)
(* greedy capture group, newline, fence                                     *)

IsSpace(tok) == tok \in {"NL", "SP"}

\* positions q where the closing "\n" + fence can match
ClosePositions(s) == {q \in 1..(Len(s) - 1) : s[q] = "NL" /\ s[q + 1] = "F"}

\* The regex anchored at start i with the whitespace run consuming k tokens: fence and json at
\* i, k whitespace tokens, the "\n", and a closing "\n" + fence at or after the
\* group start.
MatchAt(s, i, k) ==
    /\ i + 2 + k <= Len(s)
    /\ s[i] = "F"
    /\ s[i + 1] = "J"
    /\ \A j \in (i + 2)..(i + 1 + k) : IsSpace(s[j])
    /\ s[i + 2 + k] = "NL"
    /\ \E q \in ClosePositions(s) : q >= i + 3 + k

MatchStarts(s) == {i \in 1..Len(s) : \E k \in 0..Len(s) : MatchAt(s, i, k)}

Maximum(S) == CHOOSE m \in S : \A n \in S : n <= m
Minimum(S) == CHOOSE m \in S : \A n \in S : m <= n

\* group(1) of the leftmost match: the whitespace run is greedy (largest k that still lets the
\* rest match) and so is the capture group (it runs to the last closing "\n" + fence).
GreedyGroup(s) ==
    LET i == Minimum(MatchStarts(s))
        k == Maximum({n \in 0..Len(s) : MatchAt(s, i, n)})
        q == Maximum(ClosePositions(s))
    IN  SubSeq(s, i + 3 + k, q - 1)

\* json_match is None / json_match.group(1)
ReSearch(s) ==
    IF MatchStarts(s) = {} THEN [found |-> FALSE, group |-> <<>>]
    ELSE [found |-> TRUE, group |-> GreedyGroup(s)]

\* str.strip()
RECURSIVE LStrip(_)
LStrip(s) == IF s # <<>> /\ IsSpace(Head(s)) THEN LStrip(Tail(s)) ELSE s

RECURSIVE RStrip(_)
RStrip(s) ==
    IF s # <<>> /\ IsSpace(s[Len(s)]) THEN RStrip(SubSeq(s, 1, Len(s) - 1)) ELSE s

Strip(s) == RStrip(LStrip(s))

\* json.loads: the text must be exactly one JSON document
JsonDocs == {"A", "B", "E", "N"}

JsonValid(s) == Len(s) = 1 /\ s[1] \in JsonDocs

JsonLoads(s) == IF s[1] = "N" THEN PyNone ELSE PyDict(s[1])

-----------------------------------------------------------------------------
(* Events: the entries of response_data *)

\* state_delta[key] of a key the mapping does not hold
Missing == [t |-> "missing", s |-> <<>>, d |-> ""]

EmptyDelta == [k \in Registry |-> Missing]

Delta1(key, v) == [k \in Registry |-> IF k = key THEN v ELSE Missing]

Delta2(key1, v1, key2, v2) ==
    [k \in Registry |-> IF k = key1 THEN v1 ELSE IF k = key2 THEN v2 ELSE Missing]

\* A field is "absent" (no such key), "null" (the key holds None, not a mapping)
\* or "map". isMap is FALSE for an entry that is no dict at all (None).
Event(author, actions, stateDelta, delta, content, parts) ==
    [isMap |-> TRUE, author |-> author, actions |-> actions,
     stateDelta |-> stateDelta, delta |-> delta, content |-> content,
     parts |-> parts]

NotAMapping ==
    [isMap |-> FALSE, author |-> NoAuthor, actions |-> "absent",
     stateDelta |-> "absent", delta |-> EmptyDelta, content |-> "absent",
     parts |-> <<>>]

\* an event with actions.stateDelta and no content
DeltaEvent(author, delta) == Event(author, "map", "map", delta, "absent", <<>>)

-----------------------------------------------------------------------------
(* extract_financial_coordinator_output *)

\* Mutant of TargetedCondition: the author test is missing.
TargetedConditionAnyAuthor(entry) ==
    IF ~entry.isMap THEN "raise"
    ELSE IF entry.actions = "absent" THEN "false"
    ELSE IF entry.actions = "null" THEN "raise"
    ELSE IF entry.stateDelta = "absent" THEN "false"
    ELSE IF entry.stateDelta = "null" THEN "raise"
    ELSE IF entry.delta[FC_KEY] = Missing THEN "false"
    ELSE "true"

\* The condition of the if statement, evaluated left to right with short
\* circuit: "raise" where an operand raises, else "true" or "false".
TargetedCondition(entry) ==
    IF ~entry.isMap THEN "raise"
    ELSE IF entry.author # FC THEN "false"
    ELSE IF entry.actions = "absent" THEN "false"
    ELSE IF entry.actions = "null" THEN "raise"
    ELSE IF entry.stateDelta = "absent" THEN "false"
    ELSE IF entry.stateDelta = "null" THEN "raise"
    ELSE IF entry.delta[FC_KEY] = Missing THEN "false"
    ELSE "true"

\* Mutant of TargetedDecode: a matching event that does not decode ends the
\* scan with None instead of letting it go on to earlier events.
TargetedDecodeNoFallback(raw_output) ==
    IF raw_output.t = "str" /\ ReSearch(raw_output.s).found
                            /\ JsonValid(Strip(ReSearch(raw_output.s).group))
    THEN [outcome |-> "return",
          value |-> JsonLoads(Strip(ReSearch(raw_output.s).group))]
    ELSE [outcome |-> "return", value |-> PyNone]

\* Body of the if statement: re.search raises TypeError on a value that is no
\* str, json.loads raises on text that is no JSON document.
TargetedDecode(raw_output) ==
    IF raw_output.t # "str" THEN [outcome |-> "raise", value |-> PyNone]
    ELSE LET json_match == ReSearch(raw_output.s)
         IN  IF ~json_match.found THEN [outcome |-> "next", value |-> PyNone]
             ELSE LET json_str == Strip(json_match.group)
                  IN  IF JsonValid(json_str)
                      THEN [outcome |-> "return", value |-> JsonLoads(json_str)]
                      ELSE [outcome |-> "raise", value |-> PyNone]

\* One iteration of the loop body, inside the inner try.
TargetedEntry(entry) ==
    LET c == TargetedCondition(entry)
    IN  IF c = "raise" THEN [outcome |-> "raise", value |-> PyNone]
        ELSE IF c = "false" THEN [outcome |-> "next", value |-> PyNone]
        ELSE TargetedDecode(entry.delta[FC_KEY])

\* Mutant of TargetedOnException: the exception of one entry ends the scan
\* (it reaches the outer except clause, which returns None).
TargetedOnExceptionAbort(rest_value) == PyNone

\* The inner except clause: continue.
TargetedOnException(rest_value) == rest_value

\* Mutant of TargetedScan: the scan runs in chronological order (reversed()
\* dropped), so the earliest decodable matching event wins.
RECURSIVE TargetedForwardFrom(_, _, _)
TargetedForwardFrom(trace, i, n) ==
    IF i > n THEN PyNone
    ELSE LET r == TargetedEntry(trace[i])
         IN  IF r.outcome = "return" THEN r.value
             ELSE TargetedForwardFrom(trace, i + 1, n)

TargetedScanForward(trace, n) == TargetedForwardFrom(trace, 1, n)

\* The loop over reversed(response_data), here from index n down to 1.
RECURSIVE TargetedScan(_, _)
TargetedScan(trace, n) ==
    IF n = 0 THEN PyNone
    ELSE LET r == TargetedEntry(trace[n])
         IN  IF r.outcome = "return" THEN r.value
             ELSE IF r.outcome = "raise"
                  THEN TargetedOnException(TargetedScan(trace, n - 1))
                  ELSE TargetedScan(trace, n - 1)

extract_financial_coordinator_output(trace) == TargetedScan(trace, Len(trace))

-----------------------------------------------------------------------------
(* extract_all_agent_outputs *)

\* outputs = {key: None for every registry key}
InitialOutputs == [k \in Registry |-> PyNone]

\* the {} of the outer except clause
EmptyDict == [k \in {} |-> PyNone]

\* Mutant of AggregateCondition: the author test of the targeted function
\* added in front (entry.get("author") == "financial_coordinator" and ...).
AggregateConditionCoordinatorOnly(entry) ==
    IF ~entry.isMap THEN "raise"
    ELSE IF entry.author # FC THEN "false"
    ELSE IF entry.actions = "absent" THEN "false"
    ELSE IF entry.actions = "null" THEN "raise"
    ELSE IF entry.stateDelta = "absent" THEN "false"
    ELSE "true"

\* Mutant of AggregateCondition: "stateDelta" looked up in the entry itself
\* instead of entry["actions"], where no event has it.
AggregateConditionWrongLevel(entry) ==
    IF ~entry.isMap THEN "raise" ELSE "false"

\* "actions" in entry and "stateDelta" in entry["actions"]
AggregateCondition(entry) ==
    IF ~entry.isMap THEN "raise"
    ELSE IF entry.actions = "absent" THEN "false"
    ELSE IF entry.actions = "null" THEN "raise"
    ELSE IF entry.stateDelta = "absent" THEN "false"
    ELSE "true"

\* Mutant of AggregateDecode: the fenced block is never parsed, the raw value
\* is stored.
AggregateDecodeRaw(raw_output) == raw_output

\* Mutant of AggregateDecode: text without a decodable fenced block is
\* dropped (None), as the Targeted Extractor does.
AggregateDecodeStrict(raw_output) ==
    IF raw_output.t = "str"
    THEN IF ReSearch(raw_output.s).found
            /\ JsonValid(Strip(ReSearch(raw_output.s).group))
         THEN JsonLoads(Strip(ReSearch(raw_output.s).group))
         ELSE PyNone
    ELSE raw_output

\* Mutant of AggregateDecode: a value that is no str is not stored (None).
AggregateDecodeTextOnly(raw_output) ==
    IF raw_output.t = "str" THEN AggregateDecodeStrict(raw_output) ELSE PyNone

\* The value stored for a key: the parsed block, else the raw value.
AggregateDecode(raw_output) ==
    IF raw_output.t = "str"
    THEN LET json_match == ReSearch(raw_output.s)
         IN  IF json_match.found
             THEN LET json_str == Strip(json_match.group)
                  IN  IF JsonValid(json_str) THEN JsonLoads(json_str)
                      ELSE raw_output
             ELSE raw_output
    ELSE raw_output

\* Mutant of AggregateTakes: the "outputs[key] is None" test dropped, every
\* carrier overwrites the key.
AggregateTakesAlways(outputs, state_delta, key) == state_delta[key] # Missing

\* key in state_delta and outputs[key] is None
AggregateTakes(outputs, state_delta, key) ==
    state_delta[key] # Missing /\ outputs[key] = PyNone

\* The loop over outputs.keys() for one state_delta that is a mapping; the keys
\* are handled independently of each other.
AggregateKeys(outputs, state_delta) ==
    [key \in Registry |->
        IF AggregateTakes(outputs, state_delta, key)
        THEN AggregateDecode(state_delta[key])
        ELSE outputs[key]]

\* One iteration of the loop body, inside the inner try. A stateDelta that is
\* None raises at the first "key in state_delta", before any key is stored.
AggregateEntry(outputs, entry) ==
    LET c == AggregateCondition(entry)
    IN  IF c = "raise" THEN [raised |-> TRUE, outputs |-> outputs]
        ELSE IF c = "false" THEN [raised |-> FALSE, outputs |-> outputs]
        ELSE IF entry.stateDelta = "null" THEN [raised |-> TRUE, outputs |-> outputs]
        ELSE [raised |-> FALSE, outputs |-> AggregateKeys(outputs, entry.delta)]

\* Mutant of AggregateOnException: the exception of one entry reaches the
\* outer except clause, which returns {}.
AggregateOnExceptionAbort(continued) == [raised |-> TRUE, outputs |-> continued.outputs]

\* The inner except clause: continue.
AggregateOnException(continued) == continued

\* The loop over response_data from entry i on.
RECURSIVE AggregateScan(_, _, _)
AggregateScan(trace, i, outputs) ==
    IF i > Len(trace) THEN [raised |-> FALSE, outputs |-> outputs]
    ELSE LET r == AggregateEntry(outputs, trace[i])
         IN  IF r.raised
             THEN AggregateOnException(AggregateScan(trace, i + 1, r.outputs))
             ELSE AggregateScan(trace, i + 1, r.outputs)

\* Mutant of extract_all_agent_outputs: an early return of {} for an empty
\* list ("if not response_data: return {}").
ExtractAllEarlyReturn(trace) ==
    IF trace = <<>> THEN EmptyDict
    ELSE AggregateScan(trace, 1, InitialOutputs).outputs

extract_all_agent_outputs(trace) ==
    LET r == AggregateScan(trace, 1, InitialOutputs)
    IN  IF r.raised THEN EmptyDict ELSE r.outputs

-----------------------------------------------------------------------------
(* extract_conversation_summary *)

\* part["functionCall"].get("name", "unknown") of a call without a name
NoName == "<absent>"

\* A part is None ("null"), a dict without functionCall ("text"), a dict whose
\* functionCall is a dict ("call") or a dict whose functionCall is None
\* ("callnull").
Part(shape, name) == [shape |-> shape, name |-> name]

InitialSummary(trace) ==
    [total_entries |-> Len(trace), authors |-> <<>>, agent_calls |-> <<>>,
     final_output_found |-> FALSE]

\* The loop over entry["content"]["parts"] from part j on; i is the index of
\* the entry given by enumerate (0-based).
RECURSIVE SummaryParts(_, _, _, _, _)
SummaryParts(parts, j, i, author, calls) ==
    IF j > Len(parts) THEN [raised |-> FALSE, calls |-> calls]
    ELSE LET part == parts[j]
         IN  IF part.shape \in {"null", "callnull"}
             THEN [raised |-> TRUE, calls |-> calls]
             ELSE IF part.shape = "text"
             THEN SummaryParts(parts, j + 1, i, author, calls)
             ELSE SummaryParts(parts, j + 1, i, author,
                     Append(calls,
                        [entry_index |-> i,
                         function_name |->
                            IF part.name = NoName THEN UNKNOWN ELSE part.name,
                         author |-> author]))

\* The condition that sets final_output_found.
SummaryFinalCondition(entry, author) ==
    IF author # FC THEN "false"
    ELSE IF entry.actions = "absent" THEN "false"
    ELSE IF entry.actions = "null" THEN "raise"
    ELSE IF entry.stateDelta = "absent" THEN "false"
    ELSE IF entry.stateDelta = "null" THEN "raise"
    ELSE IF entry.delta[FC_KEY] = Missing THEN "false"
    ELSE "true"

\* entry.get("author", "unknown")
SummaryAuthor(entry) == IF entry.author = NoAuthor THEN UNKNOWN ELSE entry.author

\* One iteration of the loop body, inside the inner try: what the summary
\* holds when the body ends, normally or by an exception (which the except
\* clause answers with continue). content is "absent", "null" (None), "noparts"
\* (a dict without parts), "partsnull" (parts is None) or "parts".
SummaryEntry(summary, i, entry) ==
    IF ~entry.isMap THEN summary
    ELSE LET author == SummaryAuthor(entry)
             s1 == [summary EXCEPT !.authors = Append(@, author)]
         IN  IF entry.content \in {"null", "partsnull"} THEN s1
             ELSE LET pr == IF entry.content = "parts"
                            THEN SummaryParts(entry.parts, 1, i, author,
                                              s1.agent_calls)
                            ELSE [raised |-> FALSE, calls |-> s1.agent_calls]
                      s2 == [s1 EXCEPT !.agent_calls = pr.calls]
                  IN  IF pr.raised THEN s2
                      ELSE IF SummaryFinalCondition(entry, author) = "true"
                      THEN [s2 EXCEPT !.final_output_found = TRUE]
                      ELSE s2

\* The loop over enumerate(response_data) from position p (1-based) on.
RECURSIVE SummaryScan(_, _, _)
SummaryScan(trace, p, summary) ==
    IF p > Len(trace) THEN summary
    ELSE SummaryScan(trace, p + 1, SummaryEntry(summary, p - 1, trace[p]))

extract_conversation_summary(trace) == SummaryScan(trace, 1, InitialSummary(trace))

-----------------------------------------------------------------------------
(* The event lists the upstream run answers with *)

FencedA == PyStr(<<"F", "J", "NL", "A", "NL", "F">>)
FencedB == PyStr(<<"X", "NL", "F", "J", "SP", "NL", "B", "SP", "NL", "F", "NL", "X">>)
\* two fenced blocks one after the other
TwoBlocks ==
    PyStr(<<"F", "J", "NL", "A", "NL", "F", "NL", "F", "J", "NL", "B", "NL", "F">>)
\* a fenced block holding the empty JSON object
FencedEmpty == PyStr(<<"F", "J", "NL", "E", "NL", "F">>)
FencedNull == PyStr(<<"F", "J", "NL", "N", "NL", "F">>)
FencedGarbage == PyStr(<<"F", "J", "NL", "X", "NL", "F">>)
PlainText == PyStr(<<"X", "SP", "X">>)
Structured == PyDict("A")

TRANSFER == "transfer_to_agent"

\* Every event here is a dict with an author, an actions.stateDelta mapping
\* and content that is absent or a dict.
WellFormedEvents ==
    {DeltaEvent(FC, Delta1(FC_KEY, FencedA)),
     DeltaEvent(FC, Delta1(FC_KEY, FencedNull)),
     DeltaEvent(FC, Delta1(FC_KEY, FencedGarbage)),
     DeltaEvent(FC, Delta2(FC_KEY, PlainText, DA_KEY, FencedA)),
     DeltaEvent(FC, Delta1(FC_KEY, Structured)),
     DeltaEvent(FC, Delta1(FC_KEY, TwoBlocks)),
     Event(FC, "map", "map", Delta1(FC_KEY, FencedEmpty), "noparts", <<>>),
     Event(DA, "map", "map", Delta2(FC_KEY, FencedB, DA_KEY, PlainText), "parts",
           <<Part("call", TRANSFER), Part("text", NoName), Part("call", NoName)>>)}

\* author missing
AuthorlessEvents ==
    {Event(NoAuthor, "map", "map", Delta1(FC_KEY, FencedA), "parts",
           <<Part("call", TRANSFER)>>)}

\* actions absent, stateDelta absent or None, the event no mapping
NoDeltaEvents ==
    {Event(FC, "absent", "absent", EmptyDelta, "parts",
           <<Part("call", TRANSFER), Part("null", NoName), Part("call", TRANSFER)>>),
     Event(FC, "map", "absent", EmptyDelta, "absent", <<>>),
     Event(FC, "map", "null", EmptyDelta, "absent", <<>>),
     NotAMapping}

\* content is None
BadContentEvents ==
    {Event(FC, "map", "map", Delta1(FC_KEY, FencedB), "null", <<>>)}

MalformedEvents == AuthorlessEvents \cup NoDeltaEvents \cup BadContentEvents

Events == WellFormedEvents \cup MalformedEvents

-----------------------------------------------------------------------------
(* server_clean.py: the endpoints *)

HTTP_OK == 200
HTTP_TIMEOUT == 408
HTTP_INTERNAL_ERROR == 500

\* status codes of a failed upstream run
UpstreamErrors == {404, 503}

Unset == [t |-> "unset", s |-> <<>>, d |-> ""]
UnsetOutputs == [k \in Registry |-> Unset]
UnsetSummary ==
    [total_entries |-> -1, authors |-> <<>>, agent_calls |-> <<>>,
     final_output_found |-> FALSE]

NoResult ==
    [status |-> 0, financial_coordinator_output |-> Unset,
     all_outputs |-> UnsetOutputs, conversation_summary |-> UnsetSummary,
     extraction_successful |-> FALSE]

\* raise HTTPException(status_code=...) leaving the handler
HttpError(code) == [NoResult EXCEPT !.status = code]

\* "except Exception" of a handler: it also catches the HTTPException raised
\* inside the try block for an upstream status other than 200.
HandlerExcept(raised_status) == HttpError(HTTP_INTERNAL_ERROR)

\* "if financial_output:", the truth value of a Python object
Truthy(v) == v.t # "none" /\ ~(v.t = "dict" /\ v.d = "E") /\ ~(v.t = "str" /\ v.s = <<>>)

\* The part of each handler up to response.json(): the outcome is "ok" or the
\* HTTP error the handler answers with.
CallRun ==
    IF response.kind = "timeout" THEN [ok |-> FALSE, error |-> HttpError(HTTP_TIMEOUT)]
    ELSE IF response.status_code # HTTP_OK
    THEN [ok |-> FALSE, error |-> HandlerExcept(response.status_code)]
    ELSE [ok |-> TRUE, error |-> NoResult]

ExtractFinancialOutputResult ==
    LET financial_output == extract_financial_coordinator_output(response_data)
    IN  IF Truthy(financial_output)
        THEN [NoResult EXCEPT !.status = HTTP_OK,
                              !.financial_coordinator_output = financial_output,
                              !.extraction_successful = TRUE]
        ELSE [NoResult EXCEPT !.status = HTTP_OK,
                              !.financial_coordinator_output = PyNone,
                              !.extraction_successful = FALSE]

RunWithExtractionResult ==
    LET financial_output == extract_financial_coordinator_output(response_data)
        all_outputs == extract_all_agent_outputs(response_data)
        conversation_summary == extract_conversation_summary(response_data)
    IN  [status |-> HTTP_OK,
         financial_coordinator_output |-> financial_output,
         all_outputs |-> all_outputs,
         conversation_summary |-> conversation_summary,
         extraction_successful |-> financial_output # PyNone]

ExtractAllOutputsResult ==
    LET all_outputs == extract_all_agent_outputs(response_data)
        conversation_summary == extract_conversation_summary(response_data)
    IN  [NoResult EXCEPT !.status = HTTP_OK,
                         !.all_outputs = all_outputs,
                         !.conversation_summary = conversation_summary,
                         !.extraction_successful = TRUE]

-----------------------------------------------------------------------------
(* The state machine *)

Init ==
    /\ response_data = <<>>
    /\ response = [kind |-> "answered", status_code |-> HTTP_OK]
    /\ endpoint = "idle"
    /\ result = NoResult

\* The upstream run emits one more event into the list it will answer with.
UpstreamEmit ==
    /\ endpoint = "idle"
    /\ response = [kind |-> "answered", status_code |-> HTTP_OK]
    /\ Len(response_data) < MaxLen
    /\ \E e \in Events : response_data' = Append(response_data, e)
    /\ UNCHANGED <<response, endpoint, result>>

\* The upstream run fails: it answers with another status and no event list.
UpstreamFail ==
    /\ endpoint = "idle"
    /\ response = [kind |-> "answered", status_code |-> HTTP_OK]
    /\ response_data = <<>>
    /\ \E s \in UpstreamErrors :
          response' = [kind |-> "answered", status_code |-> s]
    /\ UNCHANGED <<response_data, endpoint, result>>

\* The upstream run does not answer within the client's timeout.
UpstreamTimeout ==
    /\ endpoint = "idle"
    /\ response = [kind |-> "answered", status_code |-> HTTP_OK]
    /\ response_data = <<>>
    /\ response' = [kind |-> "timeout", status_code |-> 0]
    /\ UNCHANGED <<response_data, endpoint, result>>

\* POST /extract_financial_output
extract_financial_output ==
    /\ endpoint = "idle"
    /\ endpoint' = "/extract_financial_output"
    /\ result' = IF CallRun.ok THEN ExtractFinancialOutputResult ELSE CallRun.error
    /\ UNCHANGED <<response_data, response>>

\* POST /run_with_extraction
run_with_extraction ==
    /\ endpoint = "idle"
    /\ endpoint' = "/run_with_extraction"
    /\ result' = IF CallRun.ok THEN RunWithExtractionResult ELSE CallRun.error
    /\ UNCHANGED <<response_data, response>>

\* POST /extract_all_outputs
extract_all_outputs ==
    /\ endpoint = "idle"
    /\ endpoint' = "/extract_all_outputs"
    /\ result' = IF CallRun.ok THEN ExtractAllOutputsResult ELSE CallRun.error
    /\ UNCHANGED <<response_data, response>>

Next ==
    \/ UpstreamEmit
    \/ UpstreamFail
    \/ UpstreamTimeout
    \/ extract_financial_output
    \/ run_with_extraction
    \/ extract_all_outputs

Spec == Init /\ [][Next]_vars

(***************************************************************************)
(* The three functions called directly, any number of times and in any     *)
(* order, on one event list.  Each function only reads the list: the       *)
(* targeted one walks it through reversed(), which builds an iterator and  *)
(* leaves the list in place, the other two walk it with a for loop; none   *)
(* assigns to an event or to a module-level name, and the outputs and      *)
(* summary dictionaries are built inside each call.                        *)
(***************************************************************************)
\* Longest event list handed to the directly called functions.
MaxCallLen == 2

Traces == UNION {[1..n -> Events] : n \in 0..MaxCallLen}

RECURSIVE Reverse(_)
Reverse(trace) ==
    IF trace = <<>> THEN <<>>
    ELSE Append(Reverse(Tail(trace)), Head(trace))

\* Mutant of TraceAfterTargeted: the list reversed in place
\* (response_data.reverse() before the loop).
TraceAfterTargetedInPlace(trace) == Reverse(trace)

\* The caller's list after each call returns.
TraceAfterTargeted(trace) == trace
TraceAfterAggregate(trace) == trace
TraceAfterSummary(trace) == trace

InitCalls ==
    /\ response_data \in Traces
    /\ response = [kind |-> "answered", status_code |-> HTTP_OK]
    /\ endpoint = "library"
    /\ result = NoResult

CallTargeted ==
    /\ endpoint = "library"
    /\ result' = [result EXCEPT !.financial_coordinator_output =
                      extract_financial_coordinator_output(response_data)]
    /\ response_data' = TraceAfterTargeted(response_data)
    /\ UNCHANGED <<response, endpoint>>

CallAggregate ==
    /\ endpoint = "library"
    /\ result' = [result EXCEPT !.all_outputs =
                      extract_all_agent_outputs(response_data)]
    /\ response_data' = TraceAfterAggregate(response_data)
    /\ UNCHANGED <<response, endpoint>>

CallSummary ==
    /\ endpoint = "library"
    /\ result' = [result EXCEPT !.conversation_summary =
                      extract_conversation_summary(response_data)]
    /\ response_data' = TraceAfterSummary(response_data)
    /\ UNCHANGED <<response, endpoint>>

NextCalls ==
    \/ CallTargeted
    \/ CallAggregate
    \/ CallSummary

SpecCalls == InitCalls /\ [][NextCalls]_vars

(***************************************************************************)
(* test_extraction.py: the stand-in extract_financial_coordinator_output_  *)
(* simple, the targeted function rewritten with print calls.  What it      *)
(* prints about the entry it found is kept next to the value it returns.   *)
(***************************************************************************)
\* The condition of the if statement of the stand-in.
SimpleCondition(entry) ==
    IF ~entry.isMap THEN "raise"
    ELSE IF entry.author # FC THEN "false"
    ELSE IF entry.actions = "absent" THEN "false"
    ELSE IF entry.actions = "null" THEN "raise"
    ELSE IF entry.stateDelta = "absent" THEN "false"
    ELSE IF entry.stateDelta = "null" THEN "raise"
    ELSE IF entry.delta[FC_KEY] = Missing THEN "false"
    ELSE "true"

\* Mutant of SimpleDecode: text without JSON markers ends the scan with None
\* (a return in the else branch that prints the preview).
SimpleDecodeGivesUp(raw_output) ==
    IF raw_output.t # "str" THEN [outcome |-> "raise", value |-> PyNone]
    ELSE IF ~ReSearch(raw_output.s).found THEN [outcome |-> "return", value |-> PyNone]
    ELSE IF JsonValid(Strip(ReSearch(raw_output.s).group))
    THEN [outcome |-> "return", value |-> JsonLoads(Strip(ReSearch(raw_output.s).group))]
    ELSE [outcome |-> "raise", value |-> PyNone]

\* re.search, strip and json.loads of the stand-in; the else branch prints a
\* preview raw_output[:200] of what is a str there and falls out of the if.
SimpleDecode(raw_output) ==
    IF raw_output.t # "str" THEN [outcome |-> "raise", value |-> PyNone]
    ELSE LET json_match == ReSearch(raw_output.s)
         IN  IF json_match.found
             THEN LET json_str == Strip(json_match.group)
                  IN  IF JsonValid(json_str)
                      THEN [outcome |-> "return", value |-> JsonLoads(json_str)]
                      ELSE [outcome |-> "raise", value |-> PyNone]
             ELSE [outcome |-> "next", value |-> PyNone]

\* "Found financial_coordinator_output in entry {len(response_data) - i - 1}"
SimpleOriginalIndex(n, i) == n - i - 1

\* for i, entry in enumerate(reversed(response_data)): i counts from 0, the
\* entry is the i-th from the end. found lists the entry numbers printed.
RECURSIVE SimpleScan(_, _)
SimpleScan(trace, i) ==
    IF i >= Len(trace) THEN [value |-> PyNone, found |-> <<>>]
    ELSE LET entry == trace[Len(trace) - i]
             c == SimpleCondition(entry)
         IN  IF c # "true" THEN SimpleScan(trace, i + 1)
             ELSE LET printed == <<SimpleOriginalIndex(Len(trace), i)>>
                      d == SimpleDecode(entry.delta[FC_KEY])
                  IN  IF d.outcome = "return"
                      THEN [value |-> d.value, found |-> printed]
                      ELSE [value |-> SimpleScan(trace, i + 1).value,
                            found |-> printed \o SimpleScan(trace, i + 1).found]

extract_financial_coordinator_output_simple(trace) == SimpleScan(trace, 0)

InitTest ==
    /\ response_data \in Traces
    /\ response = [kind |-> "answered", status_code |-> HTTP_OK]
    /\ endpoint = "test_extraction"
    /\ result = [called |-> "nothing", value |-> Unset, found |-> <<>>]

\* result = extract_financial_coordinator_output_simple(response_data)
CallSimple ==
    /\ endpoint = "test_extraction"
    /\ result' = [called |-> "simple",
                  value |-> extract_financial_coordinator_output_simple(response_data).value,
                  found |-> extract_financial_coordinator_output_simple(response_data).found]
    /\ UNCHANGED <<response_data, response, endpoint>>

\* the production function on the same list
CallProduction ==
    /\ endpoint = "test_extraction"
    /\ result' = [called |-> "production",
                  value |-> extract_financial_coordinator_output(response_data),
                  found |-> <<>>]
    /\ UNCHANGED <<response_data, response, endpoint>>

NextTest ==
    \/ CallSimple
    \/ CallProduction

SpecTest == InitTest /\ [][NextTest]_vars

-----------------------------------------------------------------------------
(* Vocabulary of the properties, written from their wording *)

\* the event has an actions.stateDelta mapping that contains key
Carries(e, key) ==
    e.isMap /\ e.actions = "map" /\ e.stateDelta = "map" /\ e.delta[key] # Missing

\* the three matching conditions of the Targeted Extractor
Matches(e) == Carries(e, FC_KEY) /\ e.author = FC

MatchingIndices(trace) == {i \in 1..Len(trace) : Matches(trace[i])}

CarryingIndices(trace, key) == {i \in 1..Len(trace) : Carries(trace[i], key)}

\* the value is text holding a fenced block whose body is a JSON document
\* What re.search and strip give for each text (and the empty text of a value
\* that is no text) that an event holds under a registry key.
Texts == {e.delta[key].s : e \in Events, key \in Registry}

Searched ==
    [s \in Texts |->
        [found |-> ReSearch(s).found, json_str |-> Strip(ReSearch(s).group)]]

ValidFenced(v) ==
    v.t = "str" /\ Searched[v.s].found /\ JsonValid(Searched[v.s].json_str)

Payload(v) == JsonLoads(Searched[v.s].json_str)

DecodableIndices(trace) ==
    {i \in MatchingIndices(trace) : ValidFenced(trace[i].delta[FC_KEY])}

\* /run_with_extraction answered: all three functions ran on response_data
RanAll == endpoint = "/run_with_extraction" /\ result.status = HTTP_OK

-----------------------------------------------------------------------------
(* Properties *)

\* C1: when two or more events match (author financial_coordinator, key in
\* actions.stateDelta) and the most recent of them holds a valid fenced JSON
\* payload, the Targeted Extractor returns the parsed payload of that most
\* recent event.
C1_MostRecentWins ==
    (/\ RanAll
     /\ Cardinality(MatchingIndices(response_data)) >= 2
     /\ ValidFenced(response_data[Maximum(MatchingIndices(response_data))].delta[FC_KEY]))
    => result.financial_coordinator_output
         = Payload(response_data[Maximum(MatchingIndices(response_data))].delta[FC_KEY])

\* C1 witness: two matching events with different valid payloads, the later
\* one returned.
C1_Witness ==
    /\ RanAll
    /\ \E i, j \in DecodableIndices(response_data) :
          /\ i < j
          /\ j = Maximum(MatchingIndices(response_data))
          /\ Payload(response_data[i].delta[FC_KEY]) # Payload(response_data[j].delta[FC_KEY])
          /\ result.financial_coordinator_output = Payload(response_data[j].delta[FC_KEY])

C3_FirstOccurrenceWins ==
    RanAll =>
      \A key \in Registry :
         result.all_outputs[key]
           = IF CarryingIndices(response_data, key) = {} THEN PyNone
             ELSE AggregateDecode(
                    response_data[Minimum(CarryingIndices(response_data, key))].delta[key])

\* C4 as stated: with exactly one event of author financial_coordinator
\* holding a valid fenced JSON block under the key, whatever else the trace
\* holds, both extractors return its parsed payload.
C4_SingleEventAgreement ==
    (/\ RanAll
     /\ Cardinality(DecodableIndices(response_data)) = 1)
    => /\ result.financial_coordinator_output
            = Payload(response_data[Maximum(DecodableIndices(response_data))].delta[FC_KEY])
       /\ result.all_outputs[FC_KEY] = result.financial_coordinator_output

\* C4 amended: when exactly one event of author financial_coordinator holds a
\* valid fenced JSON block under the key and no other event of the trace
\* carries the key in its actions.stateDelta, both extractors return its
\* parsed payload.
C4_SoleCarrierAgreement ==
    (/\ RanAll
     /\ Cardinality(DecodableIndices(response_data)) = 1
     /\ CarryingIndices(response_data, FC_KEY) = DecodableIndices(response_data))
    => /\ result.financial_coordinator_output
            = Payload(response_data[Maximum(DecodableIndices(response_data))].delta[FC_KEY])
       /\ result.all_outputs[FC_KEY] = result.financial_coordinator_output

\* C4 witness: the sole carrier decodes to an object among other events, and
\* both extractors hold that object.
C4_Witness ==
    /\ RanAll
    /\ Len(response_data) >= 2
    /\ Cardinality(DecodableIndices(response_data)) = 1
    /\ CarryingIndices(response_data, FC_KEY) = DecodableIndices(response_data)
    /\ result.financial_coordinator_output.t = "dict"
    /\ result.all_outputs[FC_KEY] = result.financial_coordinator_output

\* C5: any non-absent result of the Targeted Extractor is the decoded payload
\* of an event that has author financial_coordinator, has actions.stateDelta
\* and carries the key there.
C5_OnlyFromMatchingEvents ==
    (RanAll /\ result.financial_coordinator_output # PyNone)
    => \E i \in DecodableIndices(response_data) :
          result.financial_coordinator_output = Payload(response_data[i].delta[FC_KEY])

\* C5 witness: a more recent event of another author carries a different
\* valid payload under the key and the result is not taken from it.
C5_Witness ==
    /\ RanAll
    /\ result.financial_coordinator_output # PyNone
    /\ \E i \in 1..Len(response_data) :
          /\ ~Matches(response_data[i])
          /\ Carries(response_data[i], FC_KEY)
          /\ ValidFenced(response_data[i].delta[FC_KEY])
          /\ Payload(response_data[i].delta[FC_KEY]) # result.financial_coordinator_output
          /\ \A j \in MatchingIndices(response_data) : j < i

\* text without any fence marker
NoFence(v) == v.t = "str" /\ \A i \in 1..Len(v.s) : v.s[i] # "F"

\* C6: when the only event carrying a key holds plain text without fence
\* markers under it, the Aggregate Extractor returns that text unchanged
\* under the key, and for the coordinator's key the Targeted Extractor
\* returns None.
C6_PlainTextAsymmetry ==
    RanAll =>
      \A key \in Registry : \A i \in CarryingIndices(response_data, key) :
         (CarryingIndices(response_data, key) = {i} /\ NoFence(response_data[i].delta[key]))
         => /\ result.all_outputs[key] = response_data[i].delta[key]
            /\ key = FC_KEY => result.financial_coordinator_output = PyNone

\* C6 witness: the coordinator's only event under the key is plain text; the
\* targeted result is None, the aggregate one the text.
C6_Witness ==
    /\ RanAll
    /\ \E i \in MatchingIndices(response_data) :
          /\ CarryingIndices(response_data, FC_KEY) = {i}
          /\ NoFence(response_data[i].delta[FC_KEY])
          /\ result.financial_coordinator_output = PyNone
          /\ result.all_outputs[FC_KEY] = response_data[i].delta[FC_KEY]
          /\ result.all_outputs[FC_KEY].t = "str"

\* the Aggregate Extractor ran on response_data
RanAggregate ==
    endpoint \in {"/run_with_extraction", "/extract_all_outputs"} /\ result.status = HTTP_OK

\* C7: for every trace, malformed events included, the Aggregate Extractor
\* returns a mapping whose keys are exactly the five registry keys, with null
\* for every key that no event carries.
C7_CompleteMapping ==
    RanAggregate =>
      /\ DOMAIN result.all_outputs = Registry
      /\ \A key \in Registry :
            CarryingIndices(response_data, key) = {} => result.all_outputs[key] = PyNone

\* C7 witness: a trace with an event that is no mapping and one whose
\* stateDelta is no mapping; one key is resolved, another is null.
C7_Witness ==
    /\ RanAggregate
    /\ \E i, j \in 1..Len(response_data) :
          /\ ~response_data[i].isMap
          /\ response_data[j].isMap /\ response_data[j].stateDelta = "null"
    /\ DOMAIN result.all_outputs = Registry
    /\ result.all_outputs[FC_KEY] # PyNone
    /\ result.all_outputs[DA_KEY] = PyNone

\* the malformations of events: author missing; actions absent, stateDelta
\* absent or not a mapping, event not a mapping
AuthorMissing(e) == e.isMap /\ e.author = NoAuthor
LacksDelta(e) == ~e.isMap \/ e.actions # "map" \/ e.stateDelta # "map"

\* the trace without its p-th event
Remove(trace, p) == SubSeq(trace, 1, p - 1) \o SubSeq(trace, p + 1, Len(trace))

\* C8 as stated: a malformed event (author missing, actions absent,
\* stateDelta absent or not a mapping, event not a mapping) at any position
\* changes neither extractor's result: each returns what it returns on the
\* trace without that event.
C8_MalformedEventIgnored ==
    RanAll =>
      \A p \in 1..Len(response_data) :
         (AuthorMissing(response_data[p]) \/ LacksDelta(response_data[p]))
         => /\ result.financial_coordinator_output
                 = extract_financial_coordinator_output(Remove(response_data, p))
            /\ result.all_outputs = extract_all_agent_outputs(Remove(response_data, p))

\* C8 amended: an event without an actions.stateDelta mapping (actions
\* absent, stateDelta absent or not a mapping, event not a mapping) at any
\* position changes neither extractor's result, and an event whose author is
\* missing does not change the Targeted Extractor's result.
C8_EventWithoutDeltaIgnored ==
    RanAll =>
      \A p \in 1..Len(response_data) :
         /\ LacksDelta(response_data[p])
            => /\ result.financial_coordinator_output
                    = extract_financial_coordinator_output(Remove(response_data, p))
               /\ result.all_outputs = extract_all_agent_outputs(Remove(response_data, p))
         /\ AuthorMissing(response_data[p])
            => result.financial_coordinator_output
                 = extract_financial_coordinator_output(Remove(response_data, p))

\* C8 witness: an event that is no mapping sits between two events carrying
\* the key, and both extractors still return payloads of those events.
C8_Witness ==
    /\ RanAll
    /\ Len(response_data) = 3
    /\ ~response_data[2].isMap
    /\ Matches(response_data[1])
    /\ Matches(response_data[3])
    /\ result.financial_coordinator_output.t = "dict"
    /\ result.all_outputs[FC_KEY].t = "dict"
    /\ result.all_outputs[FC_KEY] # result.financial_coordinator_output

\* C9 as stated: final_output_found is true exactly when some event has
\* author financial_coordinator and carries the key in its
\* actions.stateDelta, whatever the shape of the event's other fields.
C9_FinalOutputFoundIff ==
    RanAll =>
      (result.conversation_summary.final_output_found
         <=> MatchingIndices(response_data) # {})

\* entry i of authors as the summary is said to hold it
ExpectedAuthor(e) == IF ~e.isMap \/ e.author = NoAuthor THEN UNKNOWN ELSE e.author

\* C10 as stated: authors has one entry per event, in trace order, the
\* event's author or "unknown" when it has none, and its length equals
\* total_entries and the trace length, malformed events included.
C10_OneAuthorPerEvent ==
    RanAll =>
      /\ result.conversation_summary.total_entries = Len(response_data)
      /\ Len(result.conversation_summary.authors) = Len(response_data)
      /\ \A i \in 1..Len(response_data) :
            result.conversation_summary.authors[i] = ExpectedAuthor(response_data[i])


\* The call records of one event's parts as C11 words them: one record per
\* part that carries a functionCall, in part order.
RECURSIVE ExpectedCallsOfParts(_, _, _, _)
ExpectedCallsOfParts(parts, j, index, author) ==
    IF j > Len(parts) THEN <<>>
    ELSE (IF parts[j].shape = "call"
          THEN <<[entry_index |-> index,
                  function_name |->
                     IF parts[j].name = NoName THEN UNKNOWN ELSE parts[j].name,
                  author |-> author]>>
          ELSE <<>>)
         \o ExpectedCallsOfParts(parts, j + 1, index, author)

\* ... over the events from position p on, in trace order; entry_index is the
\* 0-based position of the event in the trace.
RECURSIVE ExpectedCalls(_, _)
ExpectedCalls(trace, p) ==
    IF p > Len(trace) THEN <<>>
    ELSE (IF trace[p].isMap /\ trace[p].content = "parts"
          THEN ExpectedCallsOfParts(trace[p].parts, 1, p - 1, ExpectedAuthor(trace[p]))
          ELSE <<>>)
         \o ExpectedCalls(trace, p + 1)

\* C11 as stated: agent_calls holds exactly one record per content.parts entry
\* that carries a functionCall, in trace order then part order, with the
\* 0-based index of the owning event, the call's name or "unknown", and the
\* owning event's author.
C11_OneRecordPerCall ==
    RanAll => result.conversation_summary.agent_calls = ExpectedCalls(response_data, 1)

\* C12: for an empty trace the Targeted Extractor returns None, the Aggregate
\* Extractor the mapping of the five registry keys to null, and the Trace
\* Summarizer total_entries 0, no authors, no calls, final_output_found false.
C12_EmptyTraceDefaults ==
    (RanAll /\ response_data = <<>>)
    => /\ result.financial_coordinator_output = PyNone
       /\ DOMAIN result.all_outputs = Registry
       /\ \A key \in Registry : result.all_outputs[key] = PyNone
       /\ result.conversation_summary
            = [total_entries |-> 0, authors |-> <<>>, agent_calls |-> <<>>,
               final_output_found |-> FALSE]

\* C12 witness: /run_with_extraction answered 200 on an empty event list.
C12_Witness ==
    /\ RanAll
    /\ response_data = <<>>
    /\ result.extraction_successful = FALSE
    /\ result.conversation_summary.total_entries = 0


\* The trace the calls of SpecCalls started from is the one they end with, so
\* "run alone on that trace" is the function applied to the current list.
CalledTargeted == endpoint = "library" /\ result.financial_coordinator_output # Unset
CalledAggregate == endpoint = "library" /\ result.all_outputs # UnsetOutputs
CalledSummary == endpoint = "library" /\ result.conversation_summary # UnsetSummary

C14_StructuredValueReturned ==
    (/\ RanAll
     /\ MatchingIndices(response_data) # {}
     /\ response_data[Maximum(MatchingIndices(response_data))].delta[FC_KEY].t = "dict")
    => result.financial_coordinator_output
         = response_data[Maximum(MatchingIndices(response_data))].delta[FC_KEY]

\* The capture as C15 words it: from the first opening marker (fence, json,
\* whitespace, newline) to the nearest following closing newline + fence.
NextCloseGroup(s) ==
    LET i == Minimum(MatchStarts(s))
        k == Maximum({n \in 0..Len(s) : MatchAt(s, i, n)})
        q == Minimum({c \in ClosePositions(s) : c >= i + 3 + k})
    IN  SubSeq(s, i + 3 + k, q - 1)

\* text with an opening marker followed by more than one closing marker
SeveralClosings(v) ==
    /\ v.t = "str"
    /\ MatchStarts(v.s) # {}
    /\ Cardinality({c \in ClosePositions(v.s) : c > Minimum(MatchStarts(v.s))}) >= 2

\* C15 as stated: when the text holds an opening JSON fence followed by more
\* than one closing fence, the payload both extractors decode is the text
\* between the first opening marker and the nearest following closing marker:
\* with a JSON document there, the Targeted Extractor (most recent matching
\* event) and the Aggregate Extractor (first carrier) return that document.
C15_CaptureEndsAtNextFence ==
    RanAll =>
      /\ (/\ MatchingIndices(response_data) # {}
          /\ LET v == response_data[Maximum(MatchingIndices(response_data))].delta[FC_KEY]
             IN  SeveralClosings(v) /\ JsonValid(Strip(NextCloseGroup(v.s))))
         => result.financial_coordinator_output
              = JsonLoads(Strip(NextCloseGroup(
                  response_data[Maximum(MatchingIndices(response_data))].delta[FC_KEY].s)))
      /\ (/\ CarryingIndices(response_data, FC_KEY) # {}
          /\ LET v == response_data[Minimum(CarryingIndices(response_data, FC_KEY))].delta[FC_KEY]
             IN  SeveralClosings(v) /\ JsonValid(Strip(NextCloseGroup(v.s))))
         => result.all_outputs[FC_KEY]
              = JsonLoads(Strip(NextCloseGroup(
                  response_data[Minimum(CarryingIndices(response_data, FC_KEY))].delta[FC_KEY].s)))

\* C16 as stated: when the only event carrying the key is a matching event
\* whose fenced block is the JSON literal null, what the Targeted Extractor
\* and the Aggregate Extractor return differs from what they return when the
\* key was never found.
C16_NullDistinctFromNotFound ==
    (/\ RanAll
     /\ Cardinality(CarryingIndices(response_data, FC_KEY)) = 1
     /\ MatchingIndices(response_data) = CarryingIndices(response_data, FC_KEY)
     /\ LET v == response_data[Maximum(MatchingIndices(response_data))].delta[FC_KEY]
        IN  ValidFenced(v) /\ Payload(v) = PyNone)
    => /\ result.financial_coordinator_output # extract_financial_coordinator_output(<<>>)
       /\ result.all_outputs[FC_KEY] # extract_all_agent_outputs(<<>>)[FC_KEY]

\* text with a fenced block whose body is no JSON document
MalformedFenced(v) ==
    v.t = "str" /\ Searched[v.s].found /\ ~JsonValid(Searched[v.s].json_str)

\* C17: when the first event carrying a registry key holds text with a fenced
\* block whose body is malformed JSON, the Aggregate Extractor returns the
\* whole raw text for that key, whatever later events carry; when that event
\* is a matching one, the Targeted Extractor returns what it returns for the
\* trace without it.
C17_MalformedStoredVerbatim ==
    RanAll =>
      /\ \A key \in Registry :
            (/\ CarryingIndices(response_data, key) # {}
             /\ MalformedFenced(
                  response_data[Minimum(CarryingIndices(response_data, key))].delta[key]))
            => result.all_outputs[key]
                 = response_data[Minimum(CarryingIndices(response_data, key))].delta[key]
      /\ (/\ CarryingIndices(response_data, FC_KEY) # {}
          /\ Matches(response_data[Minimum(CarryingIndices(response_data, FC_KEY))])
          /\ MalformedFenced(
               response_data[Minimum(CarryingIndices(response_data, FC_KEY))].delta[FC_KEY]))
         => result.financial_coordinator_output
              = extract_financial_coordinator_output(
                  Remove(response_data, Minimum(CarryingIndices(response_data, FC_KEY))))

\* C17 witness: the first carrier holds a malformed fenced block, a later
\* matching event a valid one; the Aggregate Extractor holds the raw text and
\* the Targeted Extractor the later payload.
C17_Witness ==
    /\ RanAll
    /\ \E i, j \in MatchingIndices(response_data) :
          /\ i = Minimum(CarryingIndices(response_data, FC_KEY))
          /\ i < j
          /\ MalformedFenced(response_data[i].delta[FC_KEY])
          /\ ValidFenced(response_data[j].delta[FC_KEY])
          /\ result.all_outputs[FC_KEY] = response_data[i].delta[FC_KEY]
          /\ result.financial_coordinator_output = Payload(response_data[j].delta[FC_KEY])

\* C18: when the first event carrying a registry key holds a value that is
\* not text, the Aggregate Extractor returns that value unchanged for the key.
C18_StructuredStoredAsIs ==
    RanAll =>
      \A key \in Registry :
         (/\ CarryingIndices(response_data, key) # {}
          /\ response_data[Minimum(CarryingIndices(response_data, key))].delta[key].t = "dict")
         => result.all_outputs[key]
              = response_data[Minimum(CarryingIndices(response_data, key))].delta[key]

\* C18 witness: the first carrier holds a mapping, a later carrier a valid
\* fenced block with another payload, and the mapping is what is returned.
C18_Witness ==
    /\ RanAll
    /\ \E i, j \in CarryingIndices(response_data, FC_KEY) :
          /\ i = Minimum(CarryingIndices(response_data, FC_KEY))
          /\ i < j
          /\ response_data[i].delta[FC_KEY].t = "dict"
          /\ ValidFenced(response_data[j].delta[FC_KEY])
          /\ Payload(response_data[j].delta[FC_KEY]) # response_data[i].delta[FC_KEY]
          /\ result.all_outputs[FC_KEY] = response_data[i].delta[FC_KEY]

\* C19 as stated: whenever the Targeted Extractor returns a value other than
\* None, the Trace Summarizer reports final_output_found = true for the same
\* trace.
C19_ExtractedImpliesFound ==
    (RanAll /\ result.financial_coordinator_output # PyNone)
    => result.conversation_summary.final_output_found

\* C20: whenever the Targeted Extractor returns a value other than None, the
\* Aggregate Extractor's value for financial_coordinator_output on the same
\* trace is not null.
C20_ExtractedImpliesAggregated ==
    (RanAll /\ result.financial_coordinator_output # PyNone)
    => result.all_outputs[FC_KEY] # PyNone

\* C20 witness: the Targeted Extractor returns the payload of a later event,
\* the Aggregate Extractor holds the value of an earlier one.
C20_Witness ==
    /\ RanAll
    /\ result.financial_coordinator_output # PyNone
    /\ result.all_outputs[FC_KEY] # PyNone
    /\ result.all_outputs[FC_KEY] # result.financial_coordinator_output
    /\ \E i \in CarryingIndices(response_data, FC_KEY) :
          /\ i < Maximum(DecodableIndices(response_data))
          /\ result.all_outputs[FC_KEY] = AggregateDecode(response_data[i].delta[FC_KEY])


\* the trace with the author of every event that is a mapping set to a
\* (NoAuthor: the author key removed)
WithAuthor(trace, a) ==
    [i \in 1..Len(trace) |->
        IF trace[i].isMap THEN [trace[i] EXCEPT !.author = a] ELSE trace[i]]

\* C21: the Aggregate Extractor's result does not depend on the events'
\* author fields: every trace gives the mapping that the same trace gives
\* with all its authors replaced by one and the same author (or removed), so
\* two traces that differ only in their authors give equal mappings.
C21_AuthorIndependent ==
    RanAll =>
      \A a \in {FC, NoAuthor} :
         result.all_outputs = extract_all_agent_outputs(WithAuthor(response_data, a))

\* C21 witness: the first carrier of the key is not authored by the
\* coordinator, a later carrier is and holds another value; the mapping holds
\* the first carrier's value, which the Targeted Extractor does not return.
C21_Witness ==
    /\ RanAll
    /\ \E i, j \in CarryingIndices(response_data, FC_KEY) :
          /\ i = Minimum(CarryingIndices(response_data, FC_KEY))
          /\ i < j
          /\ response_data[i].author = DA
          /\ response_data[j].author = FC
          /\ ValidFenced(response_data[i].delta[FC_KEY])
          /\ result.all_outputs[FC_KEY] = Payload(response_data[i].delta[FC_KEY])
          /\ result.financial_coordinator_output # result.all_outputs[FC_KEY]


\* an endpoint has answered
Answered == endpoint \in {"/extract_financial_output", "/run_with_extraction",
                          "/extract_all_outputs"}

\* C22 as stated: when the upstream /run call answers with a status code
\* other than 200, each of the three endpoints fails with an HTTP error that
\* carries that same status code, and runs no extraction.
C22_UpstreamStatusPropagated ==
    (Answered /\ response.kind = "answered" /\ response.status_code # HTTP_OK)
    => result = HttpError(response.status_code)

\* C23 as stated: for every upstream trace the extraction_successful flag of
\* /extract_financial_output equals the flag /run_with_extraction returns for
\* the same trace, and it is true exactly when the Targeted Extractor returns
\* a value other than None, an empty mapping included.
C23_FlagsAgree ==
    (endpoint = "/extract_financial_output" /\ result.status = HTTP_OK)
    => /\ result.extraction_successful = RunWithExtractionResult.extraction_successful
       /\ result.extraction_successful
            = (extract_financial_coordinator_output(response_data) # PyNone)


RanSimple == endpoint = "test_extraction" /\ result.called = "simple"

\* C24: for every trace the stand-in of the test returns the value the
\* production Targeted Extractor returns, and each entry number it prints,
\* len(trace) - i - 1 for the i-th reverse-scanned entry, is the 0-based
\* position in the original trace of a matching entry, from the most recent
\* one downwards.
C24_StandInAgrees ==
    RanSimple =>
      /\ result.value = extract_financial_coordinator_output(response_data)
      /\ \A k \in 1..Len(result.found) :
            /\ result.found[k] + 1 \in MatchingIndices(response_data)
            /\ Cardinality({m \in MatchingIndices(response_data) : m > result.found[k] + 1})
                 = k - 1

\* C24 witness: the stand-in passed a matching entry without JSON markers and
\* returned the payload of an earlier one, printing both entry numbers.
C24_Witness ==
    /\ RanSimple
    /\ Len(response_data) >= 2
    /\ Len(result.found) = 2
    /\ result.found[1] > result.found[2]
    /\ NoFence(response_data[result.found[1] + 1].delta[FC_KEY])
    /\ result.value # PyNone
    /\ result.value = Payload(response_data[result.found[2] + 1].delta[FC_KEY])

====
